---- MODULE Spec2Model ----
(***************************************************************************)
(* Readiness-gated Unix domain sockets (src/src/lib.rs).                   *)
(*                                                                         *)
(* The model covers the accept pipeline of UnixListener::incoming, the     *)
(* four datagram operations of UnixDatagram, read and write of UnixStream  *)
(* and the five constructors, together with the parts of the               *)
(* collaborators they call: the reactor's PollEvented handle (new,         *)
(* poll_read / poll_write / need_read / need_write, its Read and Write     *)
(* implementations, its destructor), the reactor's delivery of readiness   *)
(* edges, Remote::spawn, the oneshot channel and the non-blocking socket   *)
(* syscalls.                                                               *)
(*                                                                         *)
(* Channels: "LR" is the read direction of the listening socket, "DR" and  *)
(* "DW" are the read and write directions of one datagram socket, "SR"     *)
(* and "SW" those of one stream socket.                                    *)
(***************************************************************************)
EXTENDS Naturals, Sequences, FiniteSets

\* ---------------------------------------------------------------- bounds
\* Clients that connect to the listening socket during a run.
MaxConns == 2
\* Readiness events the OS reports without anything to accept, read or write.
MaxSpurious == 2
\* Accept syscalls that fail with a genuine OS error during a run.
MaxErrs == 1
\* Datagrams that can sit in the datagram socket's receive queue.
MaxDgrams == 1

Chan == {"LR", "DR", "DW", "SR", "SW"}
Conns == 1..MaxConns

VARIABLES
    sock,       \* the socket the program holds: "listener", "datagram",
                \* "stream", or "none" (it is still calling constructors)
    \* --- reactor / PollEvented, per channel
    edge,       \* the OS has reported a readiness edge the loop has not dispatched
    ioReady,    \* the loop's readiness bit of the registration
    peReady,    \* the handle's cached readiness bit (PollEvented.readiness)
    armed,      \* a task is parked with the loop for this direction
    blocked,    \* the caller was last told "not ready" in this direction and
                \* has not been notified for it since
    nSpur,      \* spurious edges reported so far
    loopAlive,  \* the event loop (Core) still exists
    \* --- listening socket and accept pipeline
    backlog,    \* the OS accept queue, oldest first
    nConn,      \* clients that have connected so far
    fut,        \* AndThen.future: 0 = None, c = hand-off of connection c pending
    slot,       \* per connection, the oneshot: "none", "empty", "ok", "err",
                \* "canceled" (tx dropped unsent), "taken" (result consumed)
    spawnQ,     \* Message::Run closures queued for the loop, oldest first
    registered, \* accepted connections registered with the loop
    yielded,    \* connections handed to the consumer, in order
    lastPoll,   \* what the last poll of the boxed stream did and returned
    notified,   \* the consuming task has been unparked since its last poll
    nAccept,    \* accept syscalls attempted
    nDeliv,     \* read-readiness notifications dispatched for the listener
    nErr,       \* accept syscalls that failed with an OS error
    submitted,  \* per connection, registration requests submitted
    completed,  \* per connection, tx.complete calls
    observed,   \* per connection, registration results seen by the accept path
    nReg,       \* per connection, registrations its raw handle has with the loop
    destroyed,  \* the accept sequence: "no"; "dropped" (destroyed, the loop
                \* has not yet removed the registration); "removed"
    parkedAtDrop, \* a task was suspended on the sequence when it was destroyed
    \* --- datagram socket
    dgQ,        \* datagrams in the receive queue
    dgSpace,    \* the send buffer has room
    dgPeer,     \* connect() has set a peer
    lastOp,     \* what the last datagram operation did and returned
    \* --- stream socket
    stIn,       \* bytes are waiting in the receive buffer
    stSpace,    \* the send buffer has room
    lastIo,     \* what the last read / write did and returned
    \* --- constructors
    ctor        \* what the last constructor call did and returned

reactorVars == <<sock, edge, ioReady, peReady, armed, blocked, nSpur, loopAlive>>
acceptVars == <<backlog, nConn, fut, slot, spawnQ, registered, yielded,
                lastPoll, notified, nAccept, nDeliv, nErr,
                submitted, completed, observed, nReg, destroyed, parkedAtDrop>>
dgramVars == <<dgQ, dgSpace, dgPeer, lastOp>>
streamVars == <<stIn, stSpace, lastIo>>
vars == <<reactorVars, acceptVars, dgramVars, streamVars, ctor>>

\* lastPoll / lastOp before any call. In both, "ready" is whether the loop
\* had signalled the direction when the call began, "gate" what the
\* readiness query returned ("Skipped": not asked), "syscall" whether the
\* raw handle was called and "acc" / "sys" what it answered ("-": not
\* called), "rearm" whether need_read / need_write was called.
NoPoll == [res |-> "None", ready |-> FALSE, gate |-> "Skipped",
           syscall |-> FALSE, acc |-> "-", rearm |-> FALSE, item |-> 0]
NoOp == [op |-> "none", res |-> "None", ready |-> FALSE, gate |-> "Skipped",
         syscall |-> FALSE, sys |-> "-", rearm |-> FALSE]

\* ctor before any constructor call. "open" and "regs" are the raw handles
\* the call left open and left registered with the loop, "news" the
\* PollEvented::new calls that succeeded during the call.
NoCtor == [call |-> "none", res |-> "None", open |-> {}, regs |-> {},
           news |-> 0]

\* The channels of the socket the program holds.
ChansOf(s) ==
    CASE s = "listener" -> {"LR"}
      [] s = "datagram" -> {"DR", "DW"}
      [] s = "stream" -> {"SR", "SW"}
      [] OTHER -> {}

\* State after UnixListener::bind, UnixDatagram::bind or
\* UnixStream::connect has returned Ok: the handle is registered, nothing
\* has been polled. A fresh datagram or stream socket is writable, which
\* the OS reports as an edge on registration. With sock = "none" the
\* program has not constructed a socket yet.
Init ==
    /\ sock \in {"listener", "datagram", "stream", "none"}
    /\ edge = [c \in Chan |-> \/ sock = "datagram" /\ c = "DW"
                              \/ sock = "stream" /\ c = "SW"]
    /\ ioReady = [c \in Chan |-> FALSE]
    /\ peReady = [c \in Chan |-> FALSE]
    /\ armed = [c \in Chan |-> FALSE]
    /\ blocked = [c \in Chan |-> FALSE]
    /\ nSpur = 0
    /\ loopAlive = TRUE
    /\ backlog = <<>>
    /\ nConn = 0
    /\ fut = 0
    /\ slot = [c \in Conns |-> "none"]
    /\ spawnQ = <<>>
    /\ registered = {}
    /\ yielded = <<>>
    /\ lastPoll = NoPoll
    /\ notified = FALSE
    /\ nAccept = 0
    /\ nDeliv = 0
    /\ nErr = 0
    /\ submitted = [c \in Conns |-> 0]
    /\ completed = [c \in Conns |-> 0]
    /\ observed = [c \in Conns |-> 0]
    /\ nReg = [c \in Conns |-> 0]
    /\ destroyed = "no"
    /\ parkedAtDrop = FALSE
    /\ dgQ = 0
    /\ dgSpace = TRUE
    /\ dgPeer = FALSE
    /\ lastOp = NoOp
    /\ stIn = FALSE
    /\ stSpace = TRUE
    /\ lastIo = NoOp
    /\ ctor = NoCtor

\* ------------------------------------------------ reactor: PollEvented
\* The handle state an operation reads and updates: the cached bits, the
\* loop's bits, the parked tasks, and the directions for which the loop
\* unparked the caller while the operation ran.
Handle == [pe |-> peReady, io |-> ioReady, armed |-> armed, woke |-> {}]

\* PollEvented::poll_read / poll_write: READY if the cached bit is set or
\* the loop has signalled since; otherwise the current task is parked for
\* the direction and NOT_READY is returned. No syscall.
poll_ready(h, ch) ==
    IF h.pe[ch] THEN [ready |-> TRUE, h |-> h]
    ELSE IF h.io[ch]
         THEN [ready |-> TRUE,
               h |-> [h EXCEPT !.pe[ch] = TRUE, !.io[ch] = FALSE]]
         ELSE [ready |-> FALSE, h |-> [h EXCEPT !.armed[ch] = TRUE]]

\* PollEvented::need_read / need_write: clear the cached bit and park the
\* current task; if the loop has already signalled again the task is
\* unparked at once.
need(h, ch) ==
    IF h.io[ch]
    THEN [h EXCEPT !.pe[ch] = FALSE, !.woke = h.woke \cup {ch}]
    ELSE [h EXCEPT !.pe[ch] = FALSE, !.armed[ch] = TRUE]

\* ------------------------------------------------ raw socket syscalls
AccErr == [kind |-> "Err", conn |-> 0]
AccNone == [kind |-> "None", conn |-> 0]
AccSome(c) == [kind |-> "Some", conn |-> c]

\* mio_uds::UnixListener::accept: Ok(Some(pair)) for the oldest queued
\* connection, Ok(None) when the queue is empty, or an OS error.
AcceptOutcomes ==
    (IF backlog = <<>> THEN {AccNone} ELSE {AccSome(Head(backlog))})
    \cup (IF nErr < MaxErrs THEN {AccErr} ELSE {})

\* recv / recv_from on the raw datagram handle.
RecvOutcomes == (IF dgQ > 0 THEN {"Ok"} ELSE {"WouldBlock"}) \cup {"OsErr"}
\* send_to on the raw datagram handle.
SendToOutcomes == (IF dgSpace THEN {"Ok"} ELSE {"WouldBlock"}) \cup {"OsErr"}
\* send on the raw datagram handle: needs a peer.
SendOutcomes == IF dgPeer THEN SendToOutcomes ELSE {"NotConn"}
\* read / write on the raw stream handle.
ReadOutcomes == (IF stIn THEN {"Ok"} ELSE {"WouldBlock"}) \cup {"OsErr"}
WriteOutcomes == (IF stSpace THEN {"Ok"} ELSE {"WouldBlock"}) \cup {"OsErr"}

\* ------------------------------------------------ lib.rs
is_wouldblock(r) == r = "WouldBlock"

\* Faulty variants of Incoming::poll, used to show that the properties
\* below depend on it.
\* An empty accept returns NotReady without calling need_read.
Incoming_poll_NoRearm(h, acc) ==
    LET g == poll_ready(h, "LR") IN
    IF ~g.ready
    THEN [res |-> "NotReady", gate |-> "NotReady", syscall |-> FALSE,
          rearm |-> FALSE, item |-> 0, h |-> g.h]
    ELSE IF acc.kind = "Err"
    THEN [res |-> "Err", gate |-> "Ready", syscall |-> TRUE,
          rearm |-> FALSE, item |-> 0, h |-> g.h]
    ELSE IF acc.kind = "Some"
    THEN [res |-> "Item", gate |-> "Ready", syscall |-> TRUE,
          rearm |-> FALSE, item |-> acc.conn, h |-> g.h]
    ELSE [res |-> "NotReady", gate |-> "Ready", syscall |-> TRUE,
          rearm |-> FALSE, item |-> 0, h |-> g.h]

\* The accept syscall is made whatever poll_read answered.
Incoming_poll_NoGate(h, acc) ==
    LET g == poll_ready(h, "LR") IN
    IF acc.kind = "Err"
    THEN [res |-> "Err", gate |-> IF g.ready THEN "Ready" ELSE "NotReady",
          syscall |-> TRUE, rearm |-> FALSE, item |-> 0, h |-> g.h]
    ELSE IF acc.kind = "Some"
    THEN [res |-> "Item", gate |-> IF g.ready THEN "Ready" ELSE "NotReady",
          syscall |-> TRUE, rearm |-> FALSE, item |-> acc.conn, h |-> g.h]
    ELSE [res |-> "NotReady", gate |-> IF g.ready THEN "Ready" ELSE "NotReady",
          syscall |-> TRUE, rearm |-> TRUE, item |-> 0, h |-> need(g.h, "LR")]

\* An accept error is treated like an empty accept.
Incoming_poll_SwallowErr(h, acc) ==
    LET g == poll_ready(h, "LR") IN
    IF ~g.ready
    THEN [res |-> "NotReady", gate |-> "NotReady", syscall |-> FALSE,
          rearm |-> FALSE, item |-> 0, h |-> g.h]
    ELSE IF acc.kind = "Some"
    THEN [res |-> "Item", gate |-> "Ready", syscall |-> TRUE,
          rearm |-> FALSE, item |-> acc.conn, h |-> g.h]
    ELSE [res |-> "NotReady", gate |-> "Ready", syscall |-> TRUE,
          rearm |-> TRUE, item |-> 0, h |-> need(g.h, "LR")]

\* An empty accept ends the stream (Ready(None)).
Incoming_poll_EndOnEmpty(h, acc) ==
    LET g == poll_ready(h, "LR") IN
    IF ~g.ready
    THEN [res |-> "NotReady", gate |-> "NotReady", syscall |-> FALSE,
          rearm |-> FALSE, item |-> 0, h |-> g.h]
    ELSE IF acc.kind = "Err"
    THEN [res |-> "Err", gate |-> "Ready", syscall |-> TRUE,
          rearm |-> FALSE, item |-> 0, h |-> g.h]
    ELSE IF acc.kind = "Some"
    THEN [res |-> "Item", gate |-> "Ready", syscall |-> TRUE,
          rearm |-> FALSE, item |-> acc.conn, h |-> g.h]
    ELSE [res |-> "End", gate |-> "Ready", syscall |-> TRUE,
          rearm |-> FALSE, item |-> 0, h |-> g.h]

\* Incoming::poll with the accept syscall answering acc (if it is made).
Incoming_poll(h, acc) ==
    LET g == poll_ready(h, "LR") IN
    IF ~g.ready
    THEN [res |-> "NotReady", gate |-> "NotReady", syscall |-> FALSE,
          rearm |-> FALSE, item |-> 0, h |-> g.h]
    ELSE IF acc.kind = "Err"
    THEN [res |-> "Err", gate |-> "Ready", syscall |-> TRUE,
          rearm |-> FALSE, item |-> 0, h |-> g.h]
    ELSE IF acc.kind = "Some"
    THEN [res |-> "Item", gate |-> "Ready", syscall |-> TRUE,
          rearm |-> FALSE, item |-> acc.conn, h |-> g.h]
    ELSE [res |-> "NotReady", gate |-> "Ready", syscall |-> TRUE,
          rearm |-> TRUE, item |-> 0, h |-> need(g.h, "LR")]

\* Faulty variants of the closure given to and_then.
\* The raw connection is wrapped and sent back without PollEvented::new.
Closure_NoRegister(inline, regOk) ==
    IF ~loopAlive
    THEN [slot |-> "canceled", enq |-> FALSE, reg |-> FALSE,
          sub |-> 1, comp |-> 0]
    ELSE [slot |-> "ok", enq |-> FALSE, reg |-> FALSE, sub |-> 1, comp |-> 1]

\* The oneshot is made but remote.spawn is not called.
Closure_NoSpawn(inline, regOk) ==
    [slot |-> "empty", enq |-> FALSE, reg |-> FALSE, sub |-> 0, comp |-> 0]

\* The registration closure is run at once and queued for the loop as well.
Closure_RunAndQueue(inline, regOk) ==
    IF ~loopAlive
    THEN [slot |-> "canceled", enq |-> FALSE, reg |-> FALSE,
          sub |-> 1, comp |-> 0]
    ELSE [slot |-> IF regOk THEN "ok" ELSE "err", enq |-> TRUE,
          reg |-> regOk, sub |-> 1, comp |-> 1]

\* The closure given to and_then, up to the return of remote.spawn: a
\* oneshot is made and the registration closure is sent to the loop.
\* On the loop's own thread the closure runs before spawn returns
\* (PollEvented::new succeeds iff regOk); from elsewhere it is queued;
\* with the loop gone it is dropped, and tx with it.
\*   slot: the oneshot after spawn returned; enq: the closure is queued;
\*   reg: the connection got registered; sub/comp: requests submitted and
\*   tx.complete calls made.
Closure(inline, regOk) ==
    IF ~loopAlive
    THEN [slot |-> "canceled", enq |-> FALSE, reg |-> FALSE,
          sub |-> 1, comp |-> 0]
    ELSE IF inline
    THEN [slot |-> IF regOk THEN "ok" ELSE "err", enq |-> FALSE,
          reg |-> regOk, sub |-> 1, comp |-> 1]
    ELSE [slot |-> "empty", enq |-> TRUE, reg |-> FALSE,
          sub |-> 1, comp |-> 0]

\* Faulty variant of the future behind rx: a failed registration is
\* yielded as an element.
Rx_poll_ErrAsItem(v) ==
    CASE v = "ok" -> "Item"
      [] v = "err" -> "Item"
      [] v = "canceled" -> "Panic"
      [] OTHER -> "NotReady"

\* rx.then(|res| res.expect("shouldn't be canceled")) polled with the
\* oneshot in state v.
Rx_poll(v) ==
    CASE v = "ok" -> "Item"
      [] v = "err" -> "RegErr"
      [] v = "canceled" -> "Panic"
      [] OTHER -> "NotReady"

\* Faulty variant of the and_then chain: the inner stream is polled in
\* every poll, also while a hand-off is pending; a connection accepted
\* meanwhile replaces the pending hand-off.
incoming_NoWait(h, acc, inline, regOk) ==
    LET s == Incoming_poll(h, acc)
        started == s.res = "Item"
        c == IF started THEN s.item ELSE fut
        cl == Closure(inline, regOk)
        v == IF c = 0 THEN "none" ELSE IF started THEN cl.slot ELSE slot[c]
        r == IF c = 0 \/ s.res = "Err" THEN s.res ELSE Rx_poll(v)
    IN [res |-> r, gate |-> s.gate, syscall |-> s.syscall, rearm |-> s.rearm,
        item |-> IF r = "Item" THEN c ELSE 0,
        h |-> s.h, c |-> c, started |-> started, cl |-> cl,
        fut |-> IF r = "NotReady" /\ c # 0 THEN c ELSE 0,
        slotc |-> IF r \in {"Item", "RegErr"} THEN "taken" ELSE v]

\* One poll of the stream UnixListener::incoming returns:
\* Incoming{..}.and_then(closure).boxed(). With no hand-off pending the
\* inner stream is polled, an accepted pair starts the hand-off, and the
\* hand-off's future is polled in the same call; with a hand-off pending
\* only its future is polled. A finished future clears AndThen.future.
\*   c: the connection whose hand-off this poll touched (0: none);
\*   started: this poll accepted c; cl: what the closure did for c.
incoming(h, acc, inline, regOk) ==
    LET s == IF fut = 0 THEN Incoming_poll(h, acc)
             ELSE [res |-> "Item", gate |-> "Skipped", syscall |-> FALSE,
                   rearm |-> FALSE, item |-> fut, h |-> h]
        started == fut = 0 /\ s.res = "Item"
        c == IF s.res = "Item" THEN s.item ELSE 0
        cl == Closure(inline, regOk)
        v == IF c = 0 THEN "none" ELSE IF started THEN cl.slot ELSE slot[c]
        r == IF c = 0 THEN s.res ELSE Rx_poll(v)
    IN [res |-> r, gate |-> s.gate, syscall |-> s.syscall, rearm |-> s.rearm,
        item |-> IF r = "Item" THEN c ELSE 0,
        h |-> s.h, c |-> c, started |-> started, cl |-> cl,
        fut |-> IF r = "NotReady" /\ c # 0 THEN c ELSE 0,
        slotc |-> IF r \in {"Item", "RegErr"} THEN "taken" ELSE v]

\* The consuming task polls the accept sequence.
Poll ==
    /\ sock = "listener"
    /\ destroyed = "no"
    /\ lastPoll.res # "Panic"
    /\ \E acc \in AcceptOutcomes, inline \in BOOLEAN, regOk \in BOOLEAN :
      \E p \in {incoming(Handle, acc, inline, regOk)} :
        /\ lastPoll' = [res |-> p.res,
                        ready |-> peReady["LR"] \/ ioReady["LR"],
                        gate |-> p.gate, syscall |-> p.syscall,
                        acc |-> IF p.syscall THEN acc.kind ELSE "-",
                        rearm |-> p.rearm, item |-> p.item]
        /\ peReady' = p.h.pe
        /\ ioReady' = p.h.io
        /\ armed' = p.h.armed
        /\ blocked' = [blocked EXCEPT !["LR"] =
                          p.res = "NotReady" /\ p.c = 0 /\ "LR" \notin p.h.woke]
        /\ notified' = ("LR" \in p.h.woke)
        /\ nAccept' = IF p.syscall THEN nAccept + 1 ELSE nAccept
        /\ nErr' = IF p.syscall /\ acc.kind = "Err" THEN nErr + 1 ELSE nErr
        /\ backlog' = IF p.started THEN Tail(backlog) ELSE backlog
        /\ fut' = p.fut
        /\ slot' = IF p.c = 0 THEN slot ELSE [slot EXCEPT ![p.c] = p.slotc]
        /\ spawnQ' = IF p.started /\ p.cl.enq THEN Append(spawnQ, p.c)
                     ELSE spawnQ
        /\ registered' = IF p.started /\ p.cl.reg THEN registered \cup {p.c}
                         ELSE registered
        /\ nReg' = IF p.started /\ p.cl.reg THEN [nReg EXCEPT ![p.c] = @ + 1]
                   ELSE nReg
        /\ submitted' = IF p.started
                        THEN [submitted EXCEPT ![p.c] = @ + p.cl.sub]
                        ELSE submitted
        /\ completed' = IF p.started
                        THEN [completed EXCEPT ![p.c] = @ + p.cl.comp]
                        ELSE completed
        /\ observed' = IF p.res \in {"Item", "RegErr"}
                       THEN [observed EXCEPT ![p.c] = @ + 1]
                       ELSE observed
        /\ yielded' = IF p.res = "Item" THEN Append(yielded, p.c) ELSE yielded
    /\ UNCHANGED <<sock, edge, nSpur, loopAlive, nConn, nDeliv, destroyed,
                   parkedAtDrop, dgramVars, streamVars, ctor>>

\* ------------------------------------------------ the event loop
\* The loop dispatches a readiness edge of channel ch: the loop's bit is
\* set and the task parked for that direction, if any, is unparked.
Deliver(ch) ==
    /\ ch \in ChansOf(sock)
    /\ loopAlive
    /\ destroyed = "no"
    /\ edge[ch]
    /\ edge' = [edge EXCEPT ![ch] = FALSE]
    /\ ioReady' = [ioReady EXCEPT ![ch] = TRUE]
    /\ armed' = [armed EXCEPT ![ch] = FALSE]
    /\ blocked' = IF armed[ch] THEN [blocked EXCEPT ![ch] = FALSE] ELSE blocked
    /\ notified' = (notified \/ (ch = "LR" /\ armed[ch]))
    /\ nDeliv' = IF ch = "LR" THEN nDeliv + 1 ELSE nDeliv
    /\ UNCHANGED <<sock, peReady, nSpur, loopAlive, backlog, nConn, fut, slot,
                   spawnQ, registered, yielded, lastPoll, nAccept, nErr,
                   submitted, completed, observed, nReg, destroyed,
                   parkedAtDrop, dgramVars, streamVars, ctor>>

\* The loop runs the oldest queued registration closure:
\* PollEvented::new(client, handle) succeeds or fails, tx.complete(res)
\* stores the result and unparks the task waiting on rx. If rx has been
\* dropped with the accept sequence, complete drops res, and a socket in
\* it is deregistered and closed again.
RunSpawn ==
    /\ loopAlive
    /\ spawnQ # <<>>
    /\ \E regOk \in BOOLEAN :
        LET c == Head(spawnQ)
            kept == regOk /\ slot[c] # "dropped"
        IN
        /\ slot' = [slot EXCEPT ![c] = IF slot[c] = "dropped" THEN "dropped"
                                       ELSE IF regOk THEN "ok" ELSE "err"]
        /\ registered' = IF kept THEN registered \cup {c} ELSE registered
        /\ nReg' = IF kept THEN [nReg EXCEPT ![c] = @ + 1] ELSE nReg
        /\ completed' = [completed EXCEPT ![c] = @ + 1]
        /\ notified' = (notified \/ slot[c] # "dropped")
    /\ spawnQ' = Tail(spawnQ)
    /\ UNCHANGED <<reactorVars, backlog, nConn, fut, yielded, lastPoll,
                   nAccept, nDeliv, nErr, submitted, observed, destroyed,
                   parkedAtDrop, dgramVars, streamVars, ctor>>

\* ------------------------------------------------ the environment
\* A client connects: the connection joins the accept queue and the OS
\* reports a read edge on the listening handle.
ClientConnect ==
    /\ sock = "listener"
    /\ nConn < MaxConns
    /\ nConn' = nConn + 1
    /\ backlog' = Append(backlog, nConn + 1)
    /\ edge' = [edge EXCEPT !["LR"] = TRUE]
    /\ UNCHANGED <<sock, ioReady, peReady, armed, blocked, nSpur, loopAlive, fut,
                   slot, spawnQ, registered, yielded, lastPoll, notified,
                   nAccept, nDeliv, nErr, submitted, completed, observed,
                   nReg, destroyed, parkedAtDrop, dgramVars, streamVars, ctor>>

\* The OS reports readiness on ch although nothing changed.
Spurious(ch) ==
    /\ ch \in ChansOf(sock)
    /\ nSpur < MaxSpurious
    /\ nSpur' = nSpur + 1
    /\ edge' = [edge EXCEPT ![ch] = TRUE]
    /\ UNCHANGED <<sock, ioReady, peReady, armed, blocked, loopAlive,
                   acceptVars, dgramVars, streamVars, ctor>>

\* A datagram arrives in the receive queue: a read edge.
DgramArrive ==
    /\ sock = "datagram"
    /\ dgQ < MaxDgrams
    /\ dgQ' = dgQ + 1
    /\ edge' = [edge EXCEPT !["DR"] = TRUE]
    /\ UNCHANGED <<sock, ioReady, peReady, armed, blocked, nSpur, loopAlive,
                   acceptVars, dgSpace, dgPeer, lastOp, streamVars, ctor>>

\* The peer drains a full send buffer: a write edge.
PeerDrain ==
    /\ sock = "datagram"
    /\ ~dgSpace
    /\ dgSpace' = TRUE
    /\ edge' = [edge EXCEPT !["DW"] = TRUE]
    /\ UNCHANGED <<sock, ioReady, peReady, armed, blocked, nSpur, loopAlive,
                   acceptVars, dgQ, dgPeer, lastOp, streamVars, ctor>>

\* ------------------------------------------------ lib.rs: UnixDatagram
\* UnixDatagram::connect: the raw handle gets a peer.
DgConnect ==
    /\ sock = "datagram"
    /\ ~dgPeer
    /\ dgPeer' = TRUE
    /\ UNCHANGED <<reactorVars, acceptVars, dgQ, dgSpace, lastOp, streamVars,
                   ctor>>

\* Faulty variant of recv_from: the syscall is made whatever poll_read
\* answered.
recv_from_NoGate(h, sys) ==
    LET g == poll_ready(h, "DR") IN
    IF is_wouldblock(sys)
    THEN [res |-> sys, gate |-> IF g.ready THEN "Ready" ELSE "NotReady",
          syscall |-> TRUE, rearm |-> TRUE, h |-> need(g.h, "DR")]
    ELSE [res |-> sys, gate |-> IF g.ready THEN "Ready" ELSE "NotReady",
          syscall |-> TRUE, rearm |-> FALSE, h |-> g.h]

\* UnixDatagram::recv_from with the syscall answering sys (if it is made).
recv_from(h, sys) ==
    LET g == poll_ready(h, "DR") IN
    IF ~g.ready
    THEN [res |-> "WouldBlock", gate |-> "NotReady", syscall |-> FALSE,
          rearm |-> FALSE, h |-> g.h]
    ELSE IF is_wouldblock(sys)
    THEN [res |-> sys, gate |-> "Ready", syscall |-> TRUE,
          rearm |-> TRUE, h |-> need(g.h, "DR")]
    ELSE [res |-> sys, gate |-> "Ready", syscall |-> TRUE,
          rearm |-> FALSE, h |-> g.h]

\* Faulty variant of recv: a would-block syscall is returned without
\* calling need_read.
recv_NoRearm(h, sys) ==
    LET g == poll_ready(h, "DR") IN
    IF ~g.ready
    THEN [res |-> "WouldBlock", gate |-> "NotReady", syscall |-> FALSE,
          rearm |-> FALSE, h |-> g.h]
    ELSE [res |-> sys, gate |-> "Ready", syscall |-> TRUE,
          rearm |-> FALSE, h |-> g.h]

\* UnixDatagram::recv.
recv(h, sys) ==
    LET g == poll_ready(h, "DR") IN
    IF ~g.ready
    THEN [res |-> "WouldBlock", gate |-> "NotReady", syscall |-> FALSE,
          rearm |-> FALSE, h |-> g.h]
    ELSE IF is_wouldblock(sys)
    THEN [res |-> sys, gate |-> "Ready", syscall |-> TRUE,
          rearm |-> TRUE, h |-> need(g.h, "DR")]
    ELSE [res |-> sys, gate |-> "Ready", syscall |-> TRUE,
          rearm |-> FALSE, h |-> g.h]

\* Faulty variant of send_to: a would-block syscall is returned without
\* calling need_write.
send_to_NoRearm(h, sys) ==
    LET g == poll_ready(h, "DW") IN
    IF ~g.ready
    THEN [res |-> "WouldBlock", gate |-> "NotReady", syscall |-> FALSE,
          rearm |-> FALSE, h |-> g.h]
    ELSE [res |-> sys, gate |-> "Ready", syscall |-> TRUE,
          rearm |-> FALSE, h |-> g.h]

\* UnixDatagram::send_to.
send_to(h, sys) ==
    LET g == poll_ready(h, "DW") IN
    IF ~g.ready
    THEN [res |-> "WouldBlock", gate |-> "NotReady", syscall |-> FALSE,
          rearm |-> FALSE, h |-> g.h]
    ELSE IF is_wouldblock(sys)
    THEN [res |-> sys, gate |-> "Ready", syscall |-> TRUE,
          rearm |-> TRUE, h |-> need(g.h, "DW")]
    ELSE [res |-> sys, gate |-> "Ready", syscall |-> TRUE,
          rearm |-> FALSE, h |-> g.h]

\* Faulty variants of send.
\* need_write is called after every failed syscall, not only after a
\* would-block one.
send_RearmOnError(h, sys) ==
    LET g == poll_ready(h, "DW") IN
    IF ~g.ready
    THEN [res |-> "WouldBlock", gate |-> "NotReady", syscall |-> FALSE,
          rearm |-> FALSE, h |-> g.h]
    ELSE IF sys # "Ok"
    THEN [res |-> sys, gate |-> "Ready", syscall |-> TRUE,
          rearm |-> TRUE, h |-> need(g.h, "DW")]
    ELSE [res |-> sys, gate |-> "Ready", syscall |-> TRUE,
          rearm |-> FALSE, h |-> g.h]

\* The syscall is made whatever poll_write answered.
send_NoGate(h, sys) ==
    LET g == poll_ready(h, "DW") IN
    IF is_wouldblock(sys)
    THEN [res |-> sys, gate |-> IF g.ready THEN "Ready" ELSE "NotReady",
          syscall |-> TRUE, rearm |-> TRUE, h |-> need(g.h, "DW")]
    ELSE [res |-> sys, gate |-> IF g.ready THEN "Ready" ELSE "NotReady",
          syscall |-> TRUE, rearm |-> FALSE, h |-> g.h]

\* UnixDatagram::send.
send(h, sys) ==
    LET g == poll_ready(h, "DW") IN
    IF ~g.ready
    THEN [res |-> "WouldBlock", gate |-> "NotReady", syscall |-> FALSE,
          rearm |-> FALSE, h |-> g.h]
    ELSE IF is_wouldblock(sys)
    THEN [res |-> sys, gate |-> "Ready", syscall |-> TRUE,
          rearm |-> TRUE, h |-> need(g.h, "DW")]
    ELSE [res |-> sys, gate |-> "Ready", syscall |-> TRUE,
          rearm |-> FALSE, h |-> g.h]

RecvOps == {"recv_from", "recv"}
SendOps == {"send_to", "send"}
DgramOps == RecvOps \cup SendOps
Dir(op) == IF op \in RecvOps THEN "DR" ELSE "DW"

\* What the raw handle answers to op in the current OS state.
SysOutcomes(op) ==
    CASE op \in RecvOps -> RecvOutcomes
      [] op = "send_to" -> SendToOutcomes
      [] OTHER -> SendOutcomes

DgramCall(op, h, sys) ==
    CASE op = "recv_from" -> recv_from(h, sys)
      [] op = "recv" -> recv(h, sys)
      [] op = "send_to" -> send_to(h, sys)
      [] OTHER -> send(h, sys)

\* A task calls one datagram operation. A successful receive takes one
\* datagram off the queue; a successful send may fill the send buffer.
DgramOp(op) ==
    /\ sock = "datagram"
    /\ \E sys \in SysOutcomes(op), fills \in BOOLEAN :
      \E r \in {DgramCall(op, Handle, sys)} :
        LET done == r.syscall /\ r.res = "Ok" IN
        /\ lastOp' = [op |-> op, res |-> r.res,
                      ready |-> peReady[Dir(op)] \/ ioReady[Dir(op)],
                      gate |-> r.gate, syscall |-> r.syscall,
                      sys |-> IF r.syscall THEN sys ELSE "-",
                      rearm |-> r.rearm]
        /\ peReady' = r.h.pe
        /\ ioReady' = r.h.io
        /\ armed' = r.h.armed
        /\ blocked' = [blocked EXCEPT ![Dir(op)] =
                          is_wouldblock(r.res) /\ Dir(op) \notin r.h.woke]
        /\ dgQ' = IF done /\ op \in RecvOps THEN dgQ - 1 ELSE dgQ
        /\ dgSpace' = IF done /\ op \in SendOps /\ fills THEN FALSE
                      ELSE dgSpace
        /\ UNCHANGED <<sock, edge, nSpur, loopAlive, acceptVars, dgPeer,
                       streamVars, ctor>>

\* ------------------------------------------------ lib.rs: UnixStream
\* <PollEvented<E> as Read>::read, the callee of `self.io.read(buf)`: the
\* handle asks poll_read first and answers would-block itself when the
\* direction is NOT_READY; otherwise it calls the raw handle's read and
\* calls need_read if that would block. (The datagram operations above
\* repeat this pattern by hand around get_ref().)
PollEvented_read(h, sys) ==
    LET g == poll_ready(h, "SR") IN
    IF ~g.ready
    THEN [res |-> "WouldBlock", gate |-> "NotReady", syscall |-> FALSE,
          rearm |-> FALSE, h |-> g.h]
    ELSE IF is_wouldblock(sys)
    THEN [res |-> sys, gate |-> "Ready", syscall |-> TRUE,
          rearm |-> TRUE, h |-> need(g.h, "SR")]
    ELSE [res |-> sys, gate |-> "Ready", syscall |-> TRUE,
          rearm |-> FALSE, h |-> g.h]

\* <PollEvented<E> as Write>::write, the callee of `self.io.write(buf)`.
PollEvented_write(h, sys) ==
    LET g == poll_ready(h, "SW") IN
    IF ~g.ready
    THEN [res |-> "WouldBlock", gate |-> "NotReady", syscall |-> FALSE,
          rearm |-> FALSE, h |-> g.h]
    ELSE IF is_wouldblock(sys)
    THEN [res |-> sys, gate |-> "Ready", syscall |-> TRUE,
          rearm |-> TRUE, h |-> need(g.h, "SW")]
    ELSE [res |-> sys, gate |-> "Ready", syscall |-> TRUE,
          rearm |-> FALSE, h |-> g.h]

\* Faulty variant of UnixStream::read: the call goes to the raw handle
\* (self.io.get_mut().read(buf)) instead of to the PollEvented handle.
UnixStream_read_Raw(h, sys) ==
    [res |-> sys, gate |-> "Skipped", syscall |-> TRUE, rearm |-> FALSE,
     h |-> h]

\* <UnixStream as Read>::read and <&UnixStream as Read>::read: no code of
\* their own, the call is handed to the PollEvented handle.
UnixStream_read(h, sys) == PollEvented_read(h, sys)

\* <UnixStream as Write>::write and <&UnixStream as Write>::write.
UnixStream_write(h, sys) == PollEvented_write(h, sys)

StreamOps == {"read", "write"}
StreamDir(op) == IF op = "read" THEN "SR" ELSE "SW"
IoOutcomes(op) == IF op = "read" THEN ReadOutcomes ELSE WriteOutcomes
StreamCall(op, h, sys) ==
    IF op = "read" THEN UnixStream_read(h, sys) ELSE UnixStream_write(h, sys)

\* A task calls read or write on the stream. A successful read may empty
\* the receive buffer; a successful write may fill the send buffer.
StreamOp(op) ==
    /\ sock = "stream"
    /\ \E sys \in IoOutcomes(op), flips \in BOOLEAN :
      \E r \in {StreamCall(op, Handle, sys)} :
        LET done == r.syscall /\ r.res = "Ok" IN
        /\ lastIo' = [op |-> op, res |-> r.res,
                      ready |-> peReady[StreamDir(op)] \/ ioReady[StreamDir(op)],
                      gate |-> r.gate, syscall |-> r.syscall,
                      sys |-> IF r.syscall THEN sys ELSE "-",
                      rearm |-> r.rearm]
        /\ peReady' = r.h.pe
        /\ ioReady' = r.h.io
        /\ armed' = r.h.armed
        /\ blocked' = [blocked EXCEPT ![StreamDir(op)] =
                          is_wouldblock(r.res) /\ StreamDir(op) \notin r.h.woke]
        /\ stIn' = IF done /\ op = "read" /\ flips THEN FALSE ELSE stIn
        /\ stSpace' = IF done /\ op = "write" /\ flips THEN FALSE ELSE stSpace
        /\ UNCHANGED <<sock, edge, nSpur, loopAlive, acceptVars, dgramVars,
                       ctor>>

\* The peer writes: bytes arrive in the receive buffer, a read edge.
StreamArrive ==
    /\ sock = "stream"
    /\ ~stIn
    /\ stIn' = TRUE
    /\ edge' = [edge EXCEPT !["SR"] = TRUE]
    /\ UNCHANGED <<sock, ioReady, peReady, armed, blocked, nSpur, loopAlive,
                   acceptVars, dgramVars, stSpace, lastIo, ctor>>

\* The peer reads: the full send buffer gets room, a write edge.
StreamDrain ==
    /\ sock = "stream"
    /\ ~stSpace
    /\ stSpace' = TRUE
    /\ edge' = [edge EXCEPT !["SW"] = TRUE]
    /\ UNCHANGED <<sock, ioReady, peReady, armed, blocked, nSpur, loopAlive,
                   acceptVars, dgramVars, stIn, lastIo, ctor>>

\* ------------------------------------------------ lib.rs: constructors
\* A constructor call that returned an error after n successful
\* PollEvented::new calls, with every value it had made dropped: a dropped
\* raw handle is closed, a dropped socket deregisters its handle and closes
\* it.
Failed(n) == [res |-> "Err", open |-> {}, regs |-> {}, news |-> n]

\* UnixListener::new on raw handle raw; PollEvented::new succeeds iff ok.
\* PollEvented::new takes the raw handle by value: when it fails the handle
\* is dropped.
UnixListener_new(raw, ok) ==
    IF ok THEN [res |-> "Ok", open |-> {raw}, regs |-> {raw}, news |-> 1]
    ELSE Failed(0)

\* UnixStream::new.
UnixStream_new(raw, ok) ==
    IF ok THEN [res |-> "Ok", open |-> {raw}, regs |-> {raw}, news |-> 1]
    ELSE Failed(0)

\* UnixDatagram::new.
UnixDatagram_new(raw, ok) ==
    IF ok THEN [res |-> "Ok", open |-> {raw}, regs |-> {raw}, news |-> 1]
    ELSE Failed(0)

\* UnixListener::bind / _bind: the raw bind succeeds iff rawOk.
UnixListener_bind(rawOk, ok) ==
    IF ~rawOk THEN Failed(0) ELSE UnixListener_new("a", ok)

\* UnixStream::connect / _connect.
UnixStream_connect(rawOk, ok) ==
    IF ~rawOk THEN Failed(0) ELSE UnixStream_new("a", ok)

\* UnixDatagram::bind / _bind.
UnixDatagram_bind(rawOk, ok) ==
    IF ~rawOk THEN Failed(0) ELSE UnixDatagram_new("a", ok)

\* Faulty variant of UnixStream::pair: when the second end cannot be
\* registered the first end is kept (leaked) instead of dropped.
UnixStream_pair_LeakFirst(rawOk, okA, okB) ==
    IF ~rawOk THEN Failed(0)
    ELSE LET a == UnixStream_new("a", okA) IN
         IF a.res = "Err" THEN Failed(0)
         ELSE LET b == UnixStream_new("b", okB) IN
              IF b.res = "Err"
              THEN [res |-> "Err", open |-> a.open, regs |-> a.regs,
                    news |-> a.news]
              ELSE [res |-> "Ok", open |-> a.open \cup b.open,
                    regs |-> a.regs \cup b.regs, news |-> a.news + b.news]

\* UnixStream::pair: the raw pair, then new on the first end, then new on
\* the second. Each try! returns early, dropping the locals alive at that
\* point: the raw second end when the first new fails, the first socket
\* when the second new fails.
UnixStream_pair(rawOk, okA, okB) ==
    IF ~rawOk THEN Failed(0)
    ELSE LET a == UnixStream_new("a", okA) IN
         IF a.res = "Err" THEN Failed(0)
         ELSE LET b == UnixStream_new("b", okB) IN
              IF b.res = "Err" THEN Failed(a.news)
              ELSE [res |-> "Ok", open |-> a.open \cup b.open,
                    regs |-> a.regs \cup b.regs, news |-> a.news + b.news]

\* UnixDatagram::pair.
UnixDatagram_pair(rawOk, okA, okB) ==
    IF ~rawOk THEN Failed(0)
    ELSE LET a == UnixDatagram_new("a", okA) IN
         IF a.res = "Err" THEN Failed(0)
         ELSE LET b == UnixDatagram_new("b", okB) IN
              IF b.res = "Err" THEN Failed(a.news)
              ELSE [res |-> "Ok", open |-> a.open \cup b.open,
                    regs |-> a.regs \cup b.regs, news |-> a.news + b.news]

PairCalls == {"UnixStream::pair", "UnixDatagram::pair"}
CtorCalls == {"UnixListener::bind", "UnixStream::connect",
              "UnixDatagram::bind"} \cup PairCalls

CtorCall(call, rawOk, okA, okB) ==
    CASE call = "UnixListener::bind" -> UnixListener_bind(rawOk, okA)
      [] call = "UnixStream::connect" -> UnixStream_connect(rawOk, okA)
      [] call = "UnixDatagram::bind" -> UnixDatagram_bind(rawOk, okA)
      [] call = "UnixStream::pair" -> UnixStream_pair(rawOk, okA, okB)
      [] OTHER -> UnixDatagram_pair(rawOk, okA, okB)

\* The program calls a constructor; the raw call and each registration
\* succeed or fail.
Construct(call) ==
    /\ sock = "none"
    /\ \E rawOk \in BOOLEAN, okA \in BOOLEAN, okB \in BOOLEAN :
      \E r \in {CtorCall(call, rawOk, okA, okB)} :
        ctor' = [call |-> call, res |-> r.res, open |-> r.open,
                 regs |-> r.regs, news |-> r.news]
    /\ UNCHANGED <<reactorVars, acceptVars, dgramVars, streamVars>>

\* ------------------------------------------------ specification
\* The program holds one socket (sock); the loop and the OS act on its
\* channels and the program calls its operations. A program that holds no
\* socket calls the constructors.
Next ==
    \/ Poll
    \/ \E ch \in Chan : Deliver(ch)
    \/ RunSpawn
    \/ ClientConnect
    \/ \E ch \in Chan : Spurious(ch)
    \/ DgramArrive
    \/ PeerDrain
    \/ DgConnect
    \/ \E op \in DgramOps : DgramOp(op)
    \/ \E op \in StreamOps : StreamOp(op)
    \/ StreamArrive
    \/ StreamDrain
    \/ \E call \in CtorCalls : Construct(call)

Spec == Init /\ [][Next]_vars

\* The accept pipeline alone, with the scheduling the loop and the task
\* executor give: a pending edge is dispatched, a queued closure is run,
\* and the consuming task polls the sequence it was given, polls again
\* after it was unparked and after it got an element (a consumer drains a
\* stream until it says NotReady).
\* After an error the consumer may stop polling.
NextAccept ==
    \/ Poll
    \/ Deliver("LR")
    \/ RunSpawn
    \/ ClientConnect
    \/ Spurious("LR")

\* The program bound a listening socket.
InitAccept == Init /\ sock = "listener"

ConsumerTurn == (notified \/ lastPoll.res \in {"None", "Item"}) /\ Poll

LiveSpec ==
    /\ InitAccept
    /\ [][NextAccept]_vars
    /\ WF_vars(Deliver("LR"))
    /\ WF_vars(RunSpawn)
    /\ WF_vars(ConsumerTurn)

\* The event loop is destroyed while sockets are still in use: the queued
\* closures are dropped unrun, and each dropped closure drops its tx, which
\* cancels the oneshot and unparks the task waiting on rx.
DropCore ==
    /\ loopAlive
    /\ loopAlive' = FALSE
    /\ slot' = [c \in Conns |->
                   IF \E i \in 1..Len(spawnQ) : spawnQ[i] = c
                   THEN "canceled" ELSE slot[c]]
    /\ notified' = (notified \/ spawnQ # <<>>)
    /\ spawnQ' = <<>>
    /\ UNCHANGED <<sock, edge, ioReady, peReady, armed, blocked, nSpur,
                   backlog, nConn, fut, registered, yielded, lastPoll,
                   nAccept, nDeliv, nErr, submitted, completed, observed,
                   nReg, destroyed, parkedAtDrop, dgramVars, streamVars, ctor>>

\* The accept pipeline with an event loop that may be destroyed.
NextShutdown == NextAccept \/ DropCore

SpecShutdown == InitAccept /\ [][NextShutdown]_vars

\* The program destroys the stream UnixListener::incoming returned: the
\* listener inside Incoming is dropped, and with it its PollEvented handle,
\* which asks the loop to remove the registration; a pending hand-off's rx
\* is dropped, and a registered socket already waiting in it is
\* deregistered and closed. A task is suspended on the sequence if its last
\* poll returned NotReady and it has not been unparked since.
DropIncoming ==
    /\ sock = "listener"
    /\ destroyed = "no"
    /\ lastPoll.res # "Panic"
    /\ destroyed' = "dropped"
    /\ parkedAtDrop' = (lastPoll.res = "NotReady" /\ ~notified)
    /\ fut' = 0
    /\ slot' = IF fut # 0 THEN [slot EXCEPT ![fut] = "dropped"] ELSE slot
    /\ registered' = IF fut # 0 /\ slot[fut] = "ok" THEN registered \ {fut}
                     ELSE registered
    /\ nReg' = IF fut # 0 /\ slot[fut] = "ok" THEN [nReg EXCEPT ![fut] = @ - 1]
               ELSE nReg
    /\ UNCHANGED <<reactorVars, backlog, nConn, spawnQ, yielded, lastPoll,
                   notified, nAccept, nDeliv, nErr, submitted, completed,
                   observed, dgramVars, streamVars, ctor>>

\* The loop removes the registration of the destroyed listener: the
\* readiness bits and the task handle parked in the registration are
\* discarded. The parked task is not unparked.
LoopDropSource ==
    /\ loopAlive
    /\ destroyed = "dropped"
    /\ destroyed' = "removed"
    /\ edge' = [edge EXCEPT !["LR"] = FALSE]
    /\ ioReady' = [ioReady EXCEPT !["LR"] = FALSE]
    /\ armed' = [armed EXCEPT !["LR"] = FALSE]
    /\ UNCHANGED <<sock, peReady, blocked, nSpur, loopAlive, backlog, nConn,
                   fut, slot, spawnQ, registered, yielded, lastPoll, notified,
                   nAccept, nDeliv, nErr, submitted, completed, observed, nReg,
                   parkedAtDrop, dgramVars, streamVars, ctor>>

\* The accept pipeline with a consumer that may destroy the sequence.
NextDestroy == NextAccept \/ DropIncoming \/ LoopDropSource

SpecDestroy == InitAccept /\ [][NextDestroy]_vars

\* ------------------------------------------------ derived notions
Yielded(c) == \E i \in 1..Len(yielded) : yielded[i] = c
InBacklog(c) == \E i \in 1..Len(backlog) : backlog[i] = c
\* c was taken off the accept queue by an accept syscall.
Accepted(c) == c <= nConn /\ ~InBacklog(c)
\* Accept syscalls that found the queue empty.
EmptyAccepts == nAccept - nErr - (nConn - Len(backlog))
\* The OS state in which a syscall of the direction would succeed.
ActuallyReady(ch) ==
    CASE ch = "LR" -> backlog # <<>>
      [] ch = "DR" -> dgQ > 0
      [] ch = "DW" -> dgSpace
      [] ch = "SR" -> stIn
      [] OTHER -> stSpace

\* ------------------------------------------------ claims

\* C1: a poll of the accept sequence that finds the listener read-ready
\* and whose accept returns no connection calls need_read on the listening
\* handle (the cached readiness is cleared and the task is parked for the
\* next edge, or was unparked at once) and returns NotReady, not an error
\* and not end-of-sequence; the sequence can be polled again.
C1_SpuriousWakeupRearms ==
    lastPoll.acc = "None" =>
        /\ lastPoll.res = "NotReady"
        /\ lastPoll.rearm
        /\ ~peReady["LR"]
        /\ armed["LR"] \/ notified
        /\ fut = 0
        /\ ENABLED Poll

C1_Witness ==
    /\ lastPoll.ready /\ lastPoll.acc = "None"
    /\ lastPoll.res = "NotReady" /\ armed["LR"] /\ blocked["LR"]

\* The consumer's latest poll returned an error: the accept syscall failed,
\* or the registration of the accepted connection failed.
ErrorSurfaced == lastPoll.res \in {"Err", "RegErr"}

\* C2 as stated: after a spurious wakeup, a connection that is in the
\* accept queue is eventually yielded.
C2_Original ==
    \A c \in Conns :
        (EmptyAccepts >= 1 /\ InBacklog(c)) ~> Yielded(c)

\* C2, amended: after a spurious wakeup, a connection that is in the accept
\* queue is eventually yielded, or a poll returns an error (a failed accept
\* or a failed registration) to the consumer.
C2_YieldedOrError ==
    \A c \in Conns :
        (EmptyAccepts >= 1 /\ InBacklog(c)) ~> (Yielded(c) \/ ErrorSurfaced)

C2_Witness ==
    /\ EmptyAccepts >= 1 /\ nSpur >= 1
    /\ ~ErrorSurfaced
    /\ lastPoll.res = "Item" /\ Yielded(1)

\* C3: in every direction, a caller that was told NotReady / would-block
\* and has not been notified since has its interest armed with the loop,
\* and if the socket is in fact ready in that direction the readiness edge
\* is still pending at the loop, which will deliver it to the parked task.
C3_NoMissedWakeup ==
    \A ch \in Chan :
        blocked[ch] =>
            /\ armed[ch]
            /\ ActuallyReady(ch) => edge[ch]

C3_Witness ==
    \E ch \in Chan : blocked[ch] /\ ActuallyReady(ch) /\ edge[ch] /\ ~peReady[ch]

\* C4: the accept syscall is made only in a poll that found the listening
\* handle READY; a poll that asks the handle and finds it NOT_READY returns
\* NotReady without an accept syscall.
C4_AcceptOnlyWhenReady ==
    /\ lastPoll.syscall => (lastPoll.ready /\ lastPoll.gate = "Ready")
    /\ (lastPoll.gate # "Skipped" /\ ~lastPoll.ready) =>
           (lastPoll.res = "NotReady" /\ ~lastPoll.syscall)

C4_Witness ==
    /\ lastPoll.gate = "NotReady" /\ ~lastPoll.ready
    /\ lastPoll.res = "NotReady" /\ nAccept >= 1

\* C5 as stated: with no client ever connecting nothing is yielded and the
\* accept syscalls number at most the read notifications delivered.
C5_Original ==
    nConn = 0 => (yielded = <<>> /\ nAccept <= nDeliv)

\* C5, amended: with no client ever connecting nothing is yielded, and the
\* accept syscalls number at most the read notifications delivered plus the
\* accept syscalls that failed with an OS error (a failed accept leaves the
\* readiness set, so the next poll calls accept again).
C5_NoBusyLoop ==
    nConn = 0 => (yielded = <<>> /\ nAccept <= nDeliv + nErr)

C5_Witness ==
    nConn = 0 /\ nAccept >= 2 /\ nAccept = nDeliv /\ blocked["LR"]

InSpawnQ(c) == \E i \in 1..Len(spawnQ) : spawnQ[i] = c

\* C6: every connection yielded by the accept sequence was registered with
\* the event loop no later than it was yielded, and every connection taken
\* off the accept queue had its registration hand-off submitted.
C6_YieldedAreRegistered ==
    /\ \A i \in 1..Len(yielded) : yielded[i] \in registered
    /\ \A c \in Conns : Accepted(c) => submitted[c] >= 1

C6_Witness ==
    /\ lastPoll.res = "Item" /\ lastPoll.gate = "Skipped"
    /\ Yielded(lastPoll.item) /\ lastPoll.item \in registered

\* C7: for each accepted connection exactly one registration request is
\* submitted, tx.complete is called at most once and exactly once when the
\* request has run (until then the request sits in the loop's queue), and
\* the accept path sees exactly one result: none while the hand-off is
\* pending, one once the pipeline has moved on, never two.
\* It is an invariant while the event loop lives (Spec); a loop destroyed
\* with a request in flight breaks it (SpecShutdown, see C19).
C7_ExactlyOnce ==
    \A c \in Conns :
        /\ submitted[c] <= 1 /\ completed[c] <= 1 /\ observed[c] <= 1
        /\ Accepted(c) <=> submitted[c] = 1
        /\ (submitted[c] = 1 /\ completed[c] = 0) <=> InSpawnQ(c)
        /\ observed[c] = 1 => completed[c] = 1
        /\ Accepted(c) => (observed[c] = 0 <=> fut = c)
        /\ Len(spawnQ) <= 1

\* Both connections went through the hand-off with the loop running.
C7_Witness ==
    /\ observed[1] = 1 /\ completed[1] = 1 /\ submitted[1] = 1
    /\ observed[2] = 1 /\ completed[2] = 1 /\ fut = 0

\* C8 as stated: once an accept error was surfaced the sequence yields no
\* further connection.
C8_Original == [][nErr >= 1 => yielded' = yielded]_vars

\* C8, amended: a poll whose accept syscall fails with an OS error returns
\* that error, yields no connection, re-arms nothing and starts no
\* hand-off; the sequence keeps no terminated state and can be polled again
\* (a later poll may yield further connections). A poll returns an error
\* only when its accept syscall failed or when the registration of an
\* accepted connection failed.
C8_ErrorSurfaced ==
    /\ lastPoll.acc = "Err" =>
           /\ lastPoll.res = "Err" /\ lastPoll.item = 0 /\ ~lastPoll.rearm
           /\ fut = 0
           /\ ENABLED Poll
    /\ lastPoll.res = "Err" => (lastPoll.acc = "Err" /\ nErr >= 1)
    /\ lastPoll.res = "RegErr" =>
           \E c \in Conns : Accepted(c) /\ observed[c] = 1 /\ ~Yielded(c)

C8_Witness ==
    /\ lastPoll.res = "Err" /\ lastPoll.acc = "Err"
    /\ backlog # <<>> /\ peReady["LR"]

\* C9: a poll of the accept sequence never reports end-of-stream; it
\* returns NotReady, an element, or an error.
C9_NeverEnds ==
    /\ lastPoll.res # "End"
    /\ lastPoll.res \in {"None", "NotReady", "Item", "Err", "RegErr"}

C9_Witness ==
    /\ nConn = MaxConns /\ backlog = <<>> /\ Len(yielded) = MaxConns
    /\ lastPoll.acc = "None" /\ lastPoll.res = "NotReady"

\* C10: a datagram operation called while its direction is NOT_READY
\* returns would-block at once and makes no syscall.
C10_NotReadyWouldBlock ==
    (lastOp.op # "none" /\ ~lastOp.ready) =>
        /\ lastOp.gate = "NotReady"
        /\ lastOp.res = "WouldBlock"
        /\ ~lastOp.syscall /\ lastOp.sys = "-"
        /\ ~lastOp.rearm

C10_Witness ==
    /\ lastOp.op = "recv_from" /\ ~lastOp.ready /\ lastOp.res = "WouldBlock"
    /\ dgQ > 0 /\ blocked["DR"]

\* C11: a datagram operation that finds its direction READY and whose
\* syscall answers would-block calls need_read (receive operations) or
\* need_write (send operations) on its own direction before it returns,
\* and returns would-block: the cached readiness of that direction is
\* cleared and the task is parked for the next edge, or was unparked at
\* once because the loop had signalled again.
C11_WouldBlockRearms ==
    lastOp.sys = "WouldBlock" =>
        /\ lastOp.ready /\ lastOp.gate = "Ready"
        /\ lastOp.res = "WouldBlock"
        /\ lastOp.rearm
        /\ ~peReady[Dir(lastOp.op)]
        /\ armed[Dir(lastOp.op)] \/ ~blocked[Dir(lastOp.op)]

C11_Witness ==
    /\ lastOp.op = "send_to" /\ lastOp.sys = "WouldBlock"
    /\ lastOp.ready /\ lastOp.rearm
    /\ armed["DW"] /\ blocked["DW"] /\ ~dgSpace

\* C12: a datagram operation that finds its direction READY and whose
\* syscall answers anything but would-block (success or another error)
\* returns that answer unchanged and does not call need_read / need_write:
\* no task is parked or unparked by the call, the direction is READY after
\* the call as before it, and the other direction is untouched.
C12_OutcomeUnchanged ==
    [][\A op \in DgramOps :
          (DgramOp(op) /\ lastOp'.syscall /\ lastOp'.sys # "WouldBlock") =>
              /\ lastOp'.res = lastOp'.sys
              /\ ~lastOp'.rearm
              /\ armed' = armed
              /\ peReady[Dir(op)] \/ ioReady[Dir(op)]
              /\ peReady'[Dir(op)]
              /\ \A ch \in Chan \ {Dir(op)} :
                     peReady'[ch] = peReady[ch] /\ ioReady'[ch] = ioReady[ch]
              /\ ~blocked'[Dir(op)]]_vars

C12_Witness ==
    /\ lastOp.op = "send" /\ lastOp.sys = "NotConn" /\ lastOp.res = "NotConn"
    /\ ~lastOp.rearm /\ peReady["DW"] /\ ~armed["DW"]

\* C13 as stated: send and recv on a datagram socket without a peer fail
\* with not-connected, whatever the readiness of the socket.
C13_Original ==
    (lastOp.op \in {"send", "recv"} /\ ~dgPeer) => lastOp.res = "NotConn"

\* C13, amended: send on a datagram socket without a peer fails with
\* not-connected when the write direction is READY (the syscall's error is
\* returned as it is, nothing is re-armed); when the direction is
\* NOT_READY the call returns would-block without asking the raw handle.
\* recv has no peer check of its own: NOT_READY gives would-block, READY
\* gives whatever the raw handle answers.
C13_NotConnWhenReady ==
    /\ (lastOp.op = "send" /\ ~dgPeer) =>
           IF lastOp.ready
           THEN /\ lastOp.res = "NotConn" /\ lastOp.syscall
                /\ ~lastOp.rearm /\ peReady["DW"]
           ELSE lastOp.res = "WouldBlock" /\ ~lastOp.syscall
    /\ (lastOp.op = "recv" /\ ~dgPeer) =>
           IF lastOp.ready
           THEN lastOp.syscall /\ lastOp.res = lastOp.sys
           ELSE lastOp.res = "WouldBlock" /\ ~lastOp.syscall

C13_Witness ==
    /\ lastOp.op = "send" /\ ~dgPeer
    /\ lastOp.ready /\ lastOp.res = "NotConn" /\ lastOp.syscall

\* C14 as stated: every read or write on a stream socket reaches the raw
\* handle's syscall, whatever the readiness, and returns what it answered.
C14_Original ==
    lastIo.op # "none" => (lastIo.syscall /\ lastIo.res = lastIo.sys)

\* C14, amended: read and write of UnixStream have no readiness check of
\* their own but hand the call to the PollEvented handle, which gates it
\* like a datagram operation: with the direction NOT_READY the call returns
\* would-block without a syscall; with the direction READY the raw handle
\* is called once, its answer is returned, and the direction is re-armed
\* exactly when the answer is would-block.
C14_DelegatesToGatedHandle ==
    lastIo.op # "none" =>
        IF lastIo.ready
        THEN /\ lastIo.gate = "Ready" /\ lastIo.syscall
             /\ lastIo.res = lastIo.sys
             /\ lastIo.rearm <=> lastIo.sys = "WouldBlock"
        ELSE /\ lastIo.gate = "NotReady" /\ ~lastIo.syscall
             /\ lastIo.res = "WouldBlock" /\ ~lastIo.rearm

C14_Witness ==
    /\ lastIo.op = "read" /\ ~lastIo.ready
    /\ lastIo.res = "WouldBlock" /\ ~lastIo.syscall
    /\ stIn /\ blocked["SR"]

\* C15: when the registration of an accepted connection fails, the result
\* waits in the oneshot for the accept path, the poll that takes it returns
\* the registration error and no element, the connection is never yielded,
\* and its registration is not requested or attempted a second time.
C15_RegistrationErrorSurfaced ==
    /\ \A c \in Conns :
          (completed[c] >= 1 /\ nReg[c] = 0) =>
              /\ ~Yielded(c)
              /\ submitted[c] = 1 /\ completed[c] = 1
              /\ IF observed[c] = 0
                 THEN fut = c /\ slot[c] = "err"
                 ELSE observed[c] = 1 /\ slot[c] = "taken" /\ fut # c
    /\ lastPoll.res = "RegErr" =>
          /\ lastPoll.item = 0
          /\ \E c \in Conns :
                completed[c] = 1 /\ nReg[c] = 0 /\ observed[c] = 1

C15_Witness ==
    /\ lastPoll.res = "RegErr" /\ lastPoll.gate = "Skipped"
    /\ observed[1] = 1 /\ nReg[1] = 0 /\ ~Yielded(1) /\ slot[1] = "taken"

\* The raw handles a successful call of the constructor makes.
Ends(call) == IF call \in PairCalls THEN {"a", "b"} ELSE {"a"}

\* C16: a constructor call that returns Ok leaves each raw handle it made
\* open and registered; one that returns an error leaves no raw handle
\* open and no registration, also when pair() had registered the first
\* end before the second failed.
C16_AllOrNothing ==
    ctor.call # "none" =>
        IF ctor.res = "Ok"
        THEN /\ ctor.open = Ends(ctor.call) /\ ctor.regs = Ends(ctor.call)
             /\ ctor.news = Cardinality(Ends(ctor.call))
        ELSE ctor.res = "Err" /\ ctor.open = {} /\ ctor.regs = {}

C16_Witness ==
    /\ ctor.call = "UnixStream::pair" /\ ctor.res = "Err" /\ ctor.news = 1
    /\ ctor.open = {} /\ ctor.regs = {}

\* Occurrences of c in the sequence q.
Occ(q, c) == Cardinality({i \in 1..Len(q) : q[i] = c})

\* C17: the raw handle of an accepted connection has at most one
\* registration and at most one owner: the queued registration closure
\* (not yet registered), then the socket waiting in the oneshot, then the
\* socket the consumer was yielded; a registered handle has exactly one
\* owner. A constructor registers each raw handle it made once.
C17_OneRegistrationOneOwner ==
    /\ \A c \in Conns :
          /\ nReg[c] <= 1
          /\ nReg[c] = 1 <=> c \in registered
          /\ Occ(spawnQ, c) + (IF slot[c] = "ok" THEN 1 ELSE 0)
                + Occ(yielded, c) <= 1
          /\ InSpawnQ(c) => nReg[c] = 0
          /\ nReg[c] = 1 => (slot[c] = "ok" \/ Yielded(c))
    /\ ctor.res = "Ok" => ctor.news = Cardinality(ctor.regs)

C17_Witness ==
    /\ InSpawnQ(2) /\ nReg[2] = 0 /\ fut = 2
    /\ nReg[1] = 1 /\ Yielded(1)

\* C18: once the accept sequence has been destroyed and the loop has
\* removed its registration, a task that was suspended on the sequence
\* when it was destroyed has been resumed to see the operation fail.
C18_DestroyFailsSuspended ==
    (destroyed = "removed" /\ parkedAtDrop /\ spawnQ = <<>>) => notified

\* C19: the oneshot the accept path waits on is never canceled and the
\* accept path never panics, also when the event loop is destroyed.
C19_NeverCanceled ==
    /\ lastPoll.res # "Panic"
    /\ \A c \in Conns : slot[c] # "canceled"

\* C20: while a registration hand-off is outstanding no accept syscall is
\* made and no connection leaves the accept queue; at most one accepted
\* connection is between accept and the consumer and at most one closure is
\* queued; connections are yielded in the order the accept queue gave them.
C20_OneAtATime ==
    /\ [](/\ Len(spawnQ) <= 1
          /\ Cardinality({c \in Conns : Accepted(c) /\ observed[c] = 0}) <= 1
          /\ fut # 0 => (Accepted(fut) /\ observed[fut] = 0)
          /\ \A i \in 1..Len(yielded) : \A j \in 1..Len(yielded) :
                i < j => yielded[i] < yielded[j])
    /\ [][fut # 0 =>
             /\ nAccept' = nAccept
             /\ Len(backlog') >= Len(backlog)
             /\ fut' \in {0, fut}]_vars

C20_Witness ==
    /\ fut = 1 /\ InSpawnQ(1) /\ backlog = <<2>> /\ peReady["LR"]
    /\ lastPoll.gate = "Skipped" /\ lastPoll.res = "NotReady"

====
